---------------------------- MODULE Spec2Model ----------------------------
(***************************************************************************)
(* The expression-builder surface of py-polars/src/lazy/dsl.rs.            *)
(*                                                                         *)
(* The builder is a library of constructors: every call takes existing     *)
(* objects (PyExpr, When, WhenThen) and returns a new one, an error, or    *)
(* panics.  The state is the heap of objects the caller holds, the last    *)
(* call made and its outcome.                                              *)
(*                                                                         *)
(* The crate polars::lazy::dsl (Expr and its constructors), Series and     *)
(* Utf8Chunked live outside this file; they are modelled as the free       *)
(* constructors of the expression data model.                              *)
(***************************************************************************)
EXTENDS Integers, Sequences, FiniteSets

VARIABLES
    heap,     \* the objects built so far, in creation order (index = identity)
    call,     \* the last call: operation, receiver, arguments
    result    \* the outcome of the last call

vars == <<heap, call, result>>

-----------------------------------------------------------------------------
(* Bounds *)

\* objects the caller builds from the leaf constructors
MaxLeafObjs == 3
\* objects the caller builds with the methods of PyExpr
MaxExprObjs == 3
\* objects the caller builds with the binary constructors
MaxBinObjs == 3
\* objects the caller builds in the conditional-builder specification
MaxCondObjs == 6

-----------------------------------------------------------------------------
(* Inputs *)

ColNames == {"x", "y"}
AliasNames == {"out"}
\* type names handed to cast: recognised ones and others
TypeNames == {"i64", "utf8", "str"}
\* strategy names handed to fill_none: the five recognised ones and others
StrategyNames == {"backward", "forward", "min", "max", "mean", "bogus", "Forward"}
\* quantiles, in tenths: -0.5, 0.5, 1.5
Quantiles == {-5, 5, 15}
Periods == {-1, 1}
\* regular expressions handed to the string transforms; "(" is malformed
Patterns == {"a.b", "("}
Replacements == {"z"}
\* operator codes (u8) handed to binary_expr: the arithmetic operators, one
\* comparison, one logical operator and one code that selects no operator
OpCodes == {0, 1, 2, 3, 4, 10, 13}
\* Python values handed to lit: ty is the runtime type, v the value (floats in
\* tenths), wide marks an int that does not fit 64 bits
PyValues ==
    { [ty |-> "int",   v |-> 7,  wide |-> FALSE],
      [ty |-> "int",   v |-> 7,  wide |-> TRUE],
      [ty |-> "float", v |-> 25, wide |-> FALSE],
      [ty |-> "bool",  v |-> 1,  wide |-> FALSE],
      [ty |-> "str",   v |-> 0,  wide |-> FALSE],
      [ty |-> "NoneType", v |-> 0, wide |-> FALSE] }
\* columns a transform is applied to at evaluation time
DTypes == {"Utf8", "Int64", "Boolean"}
SeriesInputs == { [dtype |-> d, len |-> 2] : d \in DTypes }

-----------------------------------------------------------------------------
(* polars::lazy::dsl::Expr: the expression data model *)

Column(name) == [tag |-> "Column", name |-> name]
Literal(ty, v) == [tag |-> "Literal", ty |-> ty, val |-> v]
BinaryOp(l, op, r) == [tag |-> "BinaryOp", left |-> l, op |-> op, right |-> r]
Unary(kind, e) == [tag |-> "Unary", kind |-> kind, inner |-> e]
Alias(e, name) == [tag |-> "Alias", inner |-> e, name |-> name]
Cast(e, t) == [tag |-> "Cast", inner |-> e, target |-> t]
Aggregate(kind, e) == [tag |-> "Aggregate", kind |-> kind, inner |-> e]
AggQuantile(q, e) == [tag |-> "Aggregate", kind |-> "Quantile", q |-> q, inner |-> e]
Sort(e, reverse) == [tag |-> "Sort", inner |-> e, descending |-> reverse]
Shift(e, periods) == [tag |-> "Shift", inner |-> e, periods |-> periods]
FillNull(e, strat) == [tag |-> "FillNull", inner |-> e, strategy |-> strat]
Ternary(p, a, b) == [tag |-> "Ternary", predicate |-> p, if_true |-> a, if_false |-> b]
Apply(e, f) == [tag |-> "Apply", inner |-> e, function |-> f]

\* Expr::eq .. Expr::lt_eq: each wraps binary_expr with its operator
Expr_eq(l, r) == BinaryOp(l, "Eq", r)
Expr_neq(l, r) == BinaryOp(l, "NotEq", r)
Expr_gt(l, r) == BinaryOp(l, "Gt", r)
Expr_gt_eq(l, r) == BinaryOp(l, "GtEq", r)
Expr_lt(l, r) == BinaryOp(l, "Lt", r)
Expr_lt_eq(l, r) == BinaryOp(l, "LtEq", r)

\* dsl::ternary_expr(predicate, truthy, falsy)
dsl_ternary_expr(predicate, truthy, falsy) == Ternary(predicate, truthy, falsy)

\* Operator::from(u8): the operator a compact code selects, "" when the code
\* selects none (the conversion then fails fast)
OperatorNames ==
    <<"Plus", "Minus", "Multiply", "Divide", "Eq", "NotEq", "Gt", "GtEq",
      "Lt", "LtEq", "And", "Or", "Not">>
Operator_from(code) ==
    IF code + 1 \in DOMAIN OperatorNames THEN OperatorNames[code + 1] ELSE ""

-----------------------------------------------------------------------------
(* Objects *)

\* impl From<dsl::Expr> for PyExpr
From(expr) == [cls |-> "PyExpr", inner |-> expr]
\* #[derive(Clone)]: a copy equal to the original
Clone(obj) == obj

IsPyExpr(i) == i \in DOMAIN heap /\ heap[i].cls = "PyExpr"
IsWhen(i) == i \in DOMAIN heap /\ heap[i].cls = "When"
IsWhenThen(i) == i \in DOMAIN heap /\ heap[i].cls = "WhenThen"

NoCall == [op |-> "", self |-> 0, others |-> <<>>, strs |-> <<>>, nums |-> <<>>]
Called(op, self, others, strs, nums) ==
    call' = [op |-> op, self |-> self, others |-> others, strs |-> strs, nums |-> nums]

\* the call returns a new object
Returns(obj) ==
    /\ heap' = Append(heap, obj)
    /\ result' = [tag |-> "Ok", id |-> Len(heap) + 1, msg |-> <<>>]
\* the call returns Err(msg): nothing is built
Raises(msg) ==
    /\ heap' = heap
    /\ result' = [tag |-> "Err", id |-> 0, msg |-> msg]
\* the call panics (todo!(), panic!(), unwrap() of an Err): nothing is built
\* and nothing is returned
Panics(msg) ==
    /\ heap' = heap
    /\ result' = [tag |-> "Panic", id |-> 0, msg |-> msg]

Init ==
    /\ heap = <<>>
    /\ call = NoCall
    /\ result = [tag |-> "None", id |-> 0, msg |-> <<>>]

-----------------------------------------------------------------------------
(* Leaf constructors *)

col(name) ==
    /\ Called("col", 0, <<>>, <<name>>, <<>>)
    /\ Returns(From(Column(name)))

\* value.downcast::<PyInt>(): PyLong_Check, which a bool (a subclass of int)
\* passes
downcast_PyInt(value) == value.ty \in {"int", "bool"}
downcast_PyFloat(value) == value.ty = "float"

lit(value) ==
    /\ Called("lit", 0, <<>>, <<value.ty>>, <<value.v>>)
    /\ IF downcast_PyInt(value)
       THEN IF value.wide
            THEN Panics(<<"called Result::unwrap() on an Err value">>)
            ELSE Returns(From(Literal("Int64", value.v)))
       ELSE IF downcast_PyFloat(value)
            THEN Returns(From(Literal("Float64", value.v)))
            ELSE Panics(<<"could not convert type">>)

-----------------------------------------------------------------------------
(* impl PyExpr: comparisons *)

eq(i, j) ==
    /\ IsPyExpr(i) /\ IsPyExpr(j)
    /\ Called("eq", i, <<j>>, <<>>, <<>>)
    /\ Returns(From(Expr_eq(Clone(heap[i]).inner, heap[j].inner)))

neq(i, j) ==
    /\ IsPyExpr(i) /\ IsPyExpr(j)
    /\ Called("neq", i, <<j>>, <<>>, <<>>)
    /\ Returns(From(Expr_neq(Clone(heap[i]).inner, heap[j].inner)))

gt(i, j) ==
    /\ IsPyExpr(i) /\ IsPyExpr(j)
    /\ Called("gt", i, <<j>>, <<>>, <<>>)
    /\ Returns(From(Expr_gt(Clone(heap[i]).inner, heap[j].inner)))

gt_eq(i, j) ==
    /\ IsPyExpr(i) /\ IsPyExpr(j)
    /\ Called("gt_eq", i, <<j>>, <<>>, <<>>)
    /\ Returns(From(Expr_gt_eq(Clone(heap[i]).inner, heap[j].inner)))

\* lt_eq wired to the neighbouring shorthand
lt_eq_as_lt(i, j) ==
    /\ IsPyExpr(i) /\ IsPyExpr(j)
    /\ Called("lt_eq", i, <<j>>, <<>>, <<>>)
    /\ Returns(From(Expr_lt(Clone(heap[i]).inner, heap[j].inner)))

lt_eq(i, j) ==
    /\ IsPyExpr(i) /\ IsPyExpr(j)
    /\ Called("lt_eq", i, <<j>>, <<>>, <<>>)
    /\ Returns(From(Expr_lt_eq(Clone(heap[i]).inner, heap[j].inner)))

lt(i, j) ==
    /\ IsPyExpr(i) /\ IsPyExpr(j)
    /\ Called("lt", i, <<j>>, <<>>, <<>>)
    /\ Returns(From(Expr_lt(Clone(heap[i]).inner, heap[j].inner)))

(* impl PyExpr: alias, unary predicates *)

\* alias built on the receiver itself instead of on a copy
alias_in_place(i, name) ==
    /\ IsPyExpr(i)
    /\ Called("alias", i, <<>>, <<name>>, <<>>)
    /\ heap' = Append([heap EXCEPT ![i] = From(Alias(heap[i].inner, name))],
                      From(Alias(heap[i].inner, name)))
    /\ result' = [tag |-> "Ok", id |-> Len(heap) + 1, msg |-> <<>>]

alias(i, name) ==
    /\ IsPyExpr(i)
    /\ Called("alias", i, <<>>, <<name>>, <<>>)
    /\ Returns(From(Alias(Clone(heap[i]).inner, name)))

is_not(i) ==
    /\ IsPyExpr(i)
    /\ Called("is_not", i, <<>>, <<>>, <<>>)
    /\ Returns(From(Unary("Not", Clone(heap[i]).inner)))

is_null(i) ==
    /\ IsPyExpr(i)
    /\ Called("is_null", i, <<>>, <<>>, <<>>)
    /\ Returns(From(Unary("IsNull", Clone(heap[i]).inner)))

is_not_null(i) ==
    /\ IsPyExpr(i)
    /\ Called("is_not_null", i, <<>>, <<>>, <<>>)
    /\ Returns(From(Unary("IsNotNull", Clone(heap[i]).inner)))

-----------------------------------------------------------------------------
(* impl PyExpr: aggregations *)

agg_min(i) ==
    /\ IsPyExpr(i)
    /\ Called("agg_min", i, <<>>, <<>>, <<>>)
    /\ Returns(From(Aggregate("Min", Clone(heap[i]).inner)))

agg_max(i) ==
    /\ IsPyExpr(i)
    /\ Called("agg_max", i, <<>>, <<>>, <<>>)
    /\ Returns(From(Aggregate("Max", Clone(heap[i]).inner)))

agg_mean(i) ==
    /\ IsPyExpr(i)
    /\ Called("agg_mean", i, <<>>, <<>>, <<>>)
    /\ Returns(From(Aggregate("Mean", Clone(heap[i]).inner)))

agg_median(i) ==
    /\ IsPyExpr(i)
    /\ Called("agg_median", i, <<>>, <<>>, <<>>)
    /\ Returns(From(Aggregate("Median", Clone(heap[i]).inner)))

agg_sum(i) ==
    /\ IsPyExpr(i)
    /\ Called("agg_sum", i, <<>>, <<>>, <<>>)
    /\ Returns(From(Aggregate("Sum", Clone(heap[i]).inner)))

agg_n_unique(i) ==
    /\ IsPyExpr(i)
    /\ Called("agg_n_unique", i, <<>>, <<>>, <<>>)
    /\ Returns(From(Aggregate("NUnique", Clone(heap[i]).inner)))

agg_first(i) ==
    /\ IsPyExpr(i)
    /\ Called("agg_first", i, <<>>, <<>>, <<>>)
    /\ Returns(From(Aggregate("First", Clone(heap[i]).inner)))

agg_last(i) ==
    /\ IsPyExpr(i)
    /\ Called("agg_last", i, <<>>, <<>>, <<>>)
    /\ Returns(From(Aggregate("Last", Clone(heap[i]).inner)))

\* the quantile is handed on as given: the method has no error to return
agg_quantile(i, quantile) ==
    /\ IsPyExpr(i)
    /\ Called("agg_quantile", i, <<>>, <<>>, <<quantile>>)
    /\ Returns(From(AggQuantile(quantile, Clone(heap[i]).inner)))

agg_groups(i) ==
    /\ IsPyExpr(i)
    /\ Called("agg_groups", i, <<>>, <<>>, <<>>)
    /\ Returns(From(Aggregate("Groups", Clone(heap[i]).inner)))

max(i) ==
    /\ IsPyExpr(i)
    /\ Called("max", i, <<>>, <<>>, <<>>)
    /\ Returns(From(Aggregate("Max", Clone(heap[i]).inner)))

min(i) ==
    /\ IsPyExpr(i)
    /\ Called("min", i, <<>>, <<>>, <<>>)
    /\ Returns(From(Aggregate("Min", Clone(heap[i]).inner)))

sum(i) ==
    /\ IsPyExpr(i)
    /\ Called("sum", i, <<>>, <<>>, <<>>)
    /\ Returns(From(Aggregate("Sum", Clone(heap[i]).inner)))

mean(i) ==
    /\ IsPyExpr(i)
    /\ Called("mean", i, <<>>, <<>>, <<>>)
    /\ Returns(From(Aggregate("Mean", Clone(heap[i]).inner)))

median(i) ==
    /\ IsPyExpr(i)
    /\ Called("median", i, <<>>, <<>>, <<>>)
    /\ Returns(From(Aggregate("Median", Clone(heap[i]).inner)))

quantile(i, q) ==
    /\ IsPyExpr(i)
    /\ Called("quantile", i, <<>>, <<>>, <<q>>)
    /\ Returns(From(AggQuantile(q, Clone(heap[i]).inner)))

-----------------------------------------------------------------------------
(* impl PyExpr: cast, sort, shift, fill_none *)

\* the ArrowDataType a name selects; todo!() (a panic) for every other name
str_to_arrow_type(s) ==
    CASE s = "u8"   -> [panic |-> FALSE, dt |-> "UInt8"]
      [] s = "u16"  -> [panic |-> FALSE, dt |-> "UInt16"]
      [] s = "u32"  -> [panic |-> FALSE, dt |-> "UInt32"]
      [] s = "u64"  -> [panic |-> FALSE, dt |-> "UInt64"]
      [] s = "i8"   -> [panic |-> FALSE, dt |-> "Int8"]
      [] s = "i16"  -> [panic |-> FALSE, dt |-> "Int16"]
      [] s = "i32"  -> [panic |-> FALSE, dt |-> "Int32"]
      [] s = "i64"  -> [panic |-> FALSE, dt |-> "Int64"]
      [] s = "f32"  -> [panic |-> FALSE, dt |-> "Float32"]
      [] s = "f64"  -> [panic |-> FALSE, dt |-> "Float64"]
      [] s = "bool" -> [panic |-> FALSE, dt |-> "Boolean"]
      [] s = "utf8" -> [panic |-> FALSE, dt |-> "Utf8"]
      [] OTHER      -> [panic |-> TRUE,  dt |-> ""]

cast(i, data_type) ==
    /\ IsPyExpr(i)
    /\ Called("cast", i, <<>>, <<data_type>>, <<>>)
    /\ LET dt == str_to_arrow_type(data_type)
       IN  IF dt.panic
           THEN Panics(<<"not yet implemented">>)
           ELSE Returns(From(Cast(Clone(heap[i].inner), dt.dt)))

sort(i, reverse) ==
    /\ IsPyExpr(i)
    /\ Called("sort", i, <<>>, <<>>, <<IF reverse THEN 1 ELSE 0>>)
    /\ Returns(From(Sort(Clone(heap[i]).inner, reverse)))

shift(i, periods) ==
    /\ IsPyExpr(i)
    /\ Called("shift", i, <<>>, <<>>, <<periods>>)
    /\ Returns(From(Shift(Clone(heap[i]).inner, periods)))

\* the match of fill_none: the strategy a name selects, or the error
FillNoneStrategy(strategy) ==
    CASE strategy = "backward" -> [err |-> FALSE, strat |-> "Backward"]
      [] strategy = "forward"  -> [err |-> FALSE, strat |-> "Forward"]
      [] strategy = "min"      -> [err |-> FALSE, strat |-> "Min"]
      [] strategy = "max"      -> [err |-> FALSE, strat |-> "Max"]
      [] strategy = "mean"     -> [err |-> FALSE, strat |-> "Mean"]
      [] OTHER                 -> [err |-> TRUE,  strat |-> ""]

\* format!("Strategy {} not supported", s), as its pieces
StrategyMessage(s) == <<"Strategy ", s, " not supported">>

\* a fill_none whose last arm is a default strategy instead of the error
fill_none_defaulting(i, strategy) ==
    /\ IsPyExpr(i)
    /\ Called("fill_none", i, <<>>, <<strategy>>, <<>>)
    /\ LET strat == FillNoneStrategy(strategy)
       IN  Returns(From(FillNull(Clone(heap[i]).inner,
                                 IF strat.err THEN "Forward" ELSE strat.strat)))

fill_none(i, strategy) ==
    /\ IsPyExpr(i)
    /\ Called("fill_none", i, <<>>, <<strategy>>, <<>>)
    /\ LET strat == FillNoneStrategy(strategy)
       IN  IF strat.err
           THEN Raises(StrategyMessage(strategy))
           ELSE Returns(From(FillNull(Clone(heap[i]).inner, strat.strat)))

-----------------------------------------------------------------------------
(* Series and Utf8Chunked, as far as the string closures use them *)

\* Series::utf8(): the string view of a column, or a type mismatch
Series_utf8(s) ==
    IF s.dtype = "Utf8"
    THEN [status |-> "Ok", kind |-> "", dtype |-> "Utf8", len |-> s.len]
    ELSE [status |-> "Err", kind |-> "DataTypeMisMatch", dtype |-> "", len |-> 0]

\* compiling a pattern as a regular expression
RegexOk(pat) == pat # "("

Utf8Chunked_str_lengths(ca) ==
    [status |-> "Ok", kind |-> "", dtype |-> "UInt32", len |-> ca.len]
Utf8Chunked_replace(ca, pat, val) ==
    IF RegexOk(pat)
    THEN [status |-> "Ok", kind |-> "", dtype |-> "Utf8", len |-> ca.len]
    ELSE [status |-> "Err", kind |-> "Regex", dtype |-> "", len |-> 0]
Utf8Chunked_replace_all(ca, pat, val) ==
    IF RegexOk(pat)
    THEN [status |-> "Ok", kind |-> "", dtype |-> "Utf8", len |-> ca.len]
    ELSE [status |-> "Err", kind |-> "Regex", dtype |-> "", len |-> 0]
Utf8Chunked_contains(ca, pat) ==
    IF RegexOk(pat)
    THEN [status |-> "Ok", kind |-> "", dtype |-> "Boolean", len |-> ca.len]
    ELSE [status |-> "Err", kind |-> "Regex", dtype |-> "", len |-> 0]

\* Err(e) => Err(PolarsError::Other(format!("{:?}", e)))
AsOther(r) ==
    IF r.status = "Err" THEN [r EXCEPT !.kind = "Other"] ELSE r

-----------------------------------------------------------------------------
(* impl PyExpr: the string transforms and their closures *)

\* a closure that unwraps the string view instead of propagating its error
function_str_lengths_unwrap(s) ==
    LET ca == Series_utf8(s)
    IN  IF ca.status = "Err"
        THEN [status |-> "Panic", kind |-> "unwrap", dtype |-> "", len |-> 0]
        ELSE Utf8Chunked_str_lengths(ca)

\* let ca = s.utf8()?; Ok(ca.str_lengths().into_series())
function_str_lengths(s) ==
    LET ca == Series_utf8(s)
    IN  IF ca.status = "Err" THEN ca ELSE Utf8Chunked_str_lengths(ca)

function_str_replace(pat, val, s) ==
    LET ca == Series_utf8(s)
    IN  IF ca.status = "Err" THEN ca ELSE AsOther(Utf8Chunked_replace(ca, pat, val))

function_str_replace_all(pat, val, s) ==
    LET ca == Series_utf8(s)
    IN  IF ca.status = "Err" THEN ca ELSE AsOther(Utf8Chunked_replace_all(ca, pat, val))

function_str_contains(pat, s) ==
    LET ca == Series_utf8(s)
    IN  IF ca.status = "Err" THEN ca ELSE AsOther(Utf8Chunked_contains(ca, pat))

\* the closure value an Apply node stores: its code and what it captured
Closure(kind, pat, val) == [kind |-> kind, pat |-> pat, val |-> val]

str_lengths(i) ==
    /\ IsPyExpr(i)
    /\ Called("str_lengths", i, <<>>, <<>>, <<>>)
    /\ Returns(From(Apply(Clone(heap[i]).inner, Closure("str_lengths", "", ""))))

str_replace(i, pat, val) ==
    /\ IsPyExpr(i)
    /\ Called("str_replace", i, <<>>, <<pat, val>>, <<>>)
    /\ Returns(From(Apply(Clone(heap[i]).inner, Closure("str_replace", pat, val))))

str_replace_all(i, pat, val) ==
    /\ IsPyExpr(i)
    /\ Called("str_replace_all", i, <<>>, <<pat, val>>, <<>>)
    /\ Returns(From(Apply(Clone(heap[i]).inner, Closure("str_replace_all", pat, val))))

str_contains(i, pat) ==
    /\ IsPyExpr(i)
    /\ Called("str_contains", i, <<>>, <<pat>>, <<>>)
    /\ Returns(From(Apply(Clone(heap[i]).inner, Closure("str_contains", pat, ""))))

\* running the closure an Apply node stores
RunClosure(f, s) ==
    CASE f.kind = "str_lengths"     -> function_str_lengths(s)
      [] f.kind = "str_replace"     -> function_str_replace(f.pat, f.val, s)
      [] f.kind = "str_replace_all" -> function_str_replace_all(f.pat, f.val, s)
      [] f.kind = "str_contains"    -> function_str_contains(f.pat, s)

\* the attached function of the Apply expression i is applied to the column s
call_function(i, s) ==
    /\ IsPyExpr(i)
    /\ heap[i].inner.tag = "Apply"
    /\ Called("function", i, <<>>, <<heap[i].inner.function.kind, s.dtype>>, <<s.len>>)
    /\ LET r == RunClosure(heap[i].inner.function, s)
       IN  /\ heap' = heap
           /\ result' = [tag |-> IF r.status = "Ok" THEN "OkSeries" ELSE r.status,
                         id |-> 0,
                         msg |-> <<IF r.status = "Ok" THEN r.dtype ELSE r.kind>>]

-----------------------------------------------------------------------------
(* impl PyNumberProtocol for PyExpr, and binary_expr *)

\* dsl::binary_expr
dsl_binary_expr(l, op, r) == BinaryOp(l, op, r)

\* a subtraction wired to the neighbouring operator
sub_as_add(lhs, rhs) ==
    /\ IsPyExpr(lhs) /\ IsPyExpr(rhs)
    /\ Called("__sub__", lhs, <<rhs>>, <<>>, <<>>)
    /\ Returns(From(dsl_binary_expr(heap[lhs].inner, "Plus", heap[rhs].inner)))

__add__(lhs, rhs) ==
    /\ IsPyExpr(lhs) /\ IsPyExpr(rhs)
    /\ Called("__add__", lhs, <<rhs>>, <<>>, <<>>)
    /\ Returns(From(dsl_binary_expr(heap[lhs].inner, "Plus", heap[rhs].inner)))

__sub__(lhs, rhs) ==
    /\ IsPyExpr(lhs) /\ IsPyExpr(rhs)
    /\ Called("__sub__", lhs, <<rhs>>, <<>>, <<>>)
    /\ Returns(From(dsl_binary_expr(heap[lhs].inner, "Minus", heap[rhs].inner)))

__mul__(lhs, rhs) ==
    /\ IsPyExpr(lhs) /\ IsPyExpr(rhs)
    /\ Called("__mul__", lhs, <<rhs>>, <<>>, <<>>)
    /\ Returns(From(dsl_binary_expr(heap[lhs].inner, "Multiply", heap[rhs].inner)))

__truediv__(lhs, rhs) ==
    /\ IsPyExpr(lhs) /\ IsPyExpr(rhs)
    /\ Called("__truediv__", lhs, <<rhs>>, <<>>, <<>>)
    /\ Returns(From(dsl_binary_expr(heap[lhs].inner, "Divide", heap[rhs].inner)))

\* binary_expr(l, op, r) as a function of its arguments: the object it
\* returns, or a panic when the code selects no operator
binary_expr(l, op, r) ==
    LET left == l.inner
        right == r.inner
        oper == Operator_from(op)
    IN  IF oper = ""
        THEN [panic |-> TRUE, obj |-> [cls |-> "None"]]
        ELSE [panic |-> FALSE, obj |-> From(dsl_binary_expr(left, oper, right))]

call_binary_expr(l, op, r) ==
    /\ IsPyExpr(l) /\ IsPyExpr(r)
    /\ Called("binary_expr", 0, <<l, r>>, <<>>, <<op>>)
    /\ LET b == binary_expr(heap[l], op, heap[r])
       IN  IF b.panic THEN Panics(<<"not an operator">>) ELSE Returns(b.obj)

-----------------------------------------------------------------------------
(* when / When::then / WhenThen::otherwise *)

when(predicate) ==
    /\ IsPyExpr(predicate)
    /\ Called("when", 0, <<predicate>>, <<>>, <<>>)
    /\ Returns([cls |-> "When", predicate |-> heap[predicate]])

\* a then that completes the conditional by itself, with no else-branch given
then_completes(w, expr) ==
    /\ IsWhen(w) /\ IsPyExpr(expr)
    /\ Called("then", w, <<expr>>, <<>>, <<>>)
    /\ Returns(From(dsl_ternary_expr(heap[w].predicate.inner, heap[expr].inner,
                                     heap[expr].inner)))

then(w, expr) ==
    /\ IsWhen(w) /\ IsPyExpr(expr)
    /\ Called("then", w, <<expr>>, <<>>, <<>>)
    /\ Returns([cls |-> "WhenThen",
                predicate |-> Clone(heap[w].predicate),
                then |-> heap[expr]])

\* an otherwise that hands the branches over in the wrong order
otherwise_swapped(wt, expr) ==
    /\ IsWhenThen(wt) /\ IsPyExpr(expr)
    /\ Called("otherwise", wt, <<expr>>, <<>>, <<>>)
    /\ Returns(From(dsl_ternary_expr(Clone(heap[wt].predicate.inner),
                                     heap[expr].inner,
                                     Clone(heap[wt].then.inner))))

otherwise(wt, expr) ==
    /\ IsWhenThen(wt) /\ IsPyExpr(expr)
    /\ Called("otherwise", wt, <<expr>>, <<>>, <<>>)
    /\ Returns(From(dsl_ternary_expr(Clone(heap[wt].predicate.inner),
                                     Clone(heap[wt].then.inner),
                                     heap[expr].inner)))

-----------------------------------------------------------------------------
(* Specifications *)

Ids == 1 .. Len(heap)

\* the caller still has room for an object
LeafRoom == Len(heap) < MaxLeafObjs

\* the leaf constructors
NextLeaf ==
    \/ LeafRoom /\ \E name \in ColNames : col(name)
    \/ LeafRoom /\ \E value \in PyValues : lit(value)

SpecLeaf == Init /\ [][NextLeaf]_vars

\* the caller still has room for an object
ExprRoom == Len(heap) < MaxExprObjs

\* the methods of PyExpr on expressions over one column, and the evaluation
\* of the closures they attach
NextExpr ==
    \/ ExprRoom /\ col("x")
    \/ ExprRoom /\ \E i, j \in Ids : eq(i, j)
    \/ ExprRoom /\ \E i, j \in Ids : neq(i, j)
    \/ ExprRoom /\ \E i, j \in Ids : gt(i, j)
    \/ ExprRoom /\ \E i, j \in Ids : gt_eq(i, j)
    \/ ExprRoom /\ \E i, j \in Ids : lt_eq(i, j)
    \/ ExprRoom /\ \E i, j \in Ids : lt(i, j)
    \/ ExprRoom /\ \E i \in Ids, name \in AliasNames : alias(i, name)
    \/ ExprRoom /\ \E i \in Ids : is_not(i)
    \/ ExprRoom /\ \E i \in Ids : is_null(i)
    \/ ExprRoom /\ \E i \in Ids : is_not_null(i)
    \/ ExprRoom /\ \E i \in Ids : agg_min(i)
    \/ ExprRoom /\ \E i \in Ids : agg_max(i)
    \/ ExprRoom /\ \E i \in Ids : agg_mean(i)
    \/ ExprRoom /\ \E i \in Ids : agg_median(i)
    \/ ExprRoom /\ \E i \in Ids : agg_sum(i)
    \/ ExprRoom /\ \E i \in Ids : agg_n_unique(i)
    \/ ExprRoom /\ \E i \in Ids : agg_first(i)
    \/ ExprRoom /\ \E i \in Ids : agg_last(i)
    \/ ExprRoom /\ \E i \in Ids, q \in Quantiles : agg_quantile(i, q)
    \/ ExprRoom /\ \E i \in Ids : agg_groups(i)
    \/ ExprRoom /\ \E i \in Ids, t \in TypeNames : cast(i, t)
    \/ ExprRoom /\ \E i \in Ids, reverse \in BOOLEAN : sort(i, reverse)
    \/ ExprRoom /\ \E i \in Ids, periods \in Periods : shift(i, periods)
    \/ ExprRoom /\ \E i \in Ids, strategy \in StrategyNames : fill_none(i, strategy)
    \/ ExprRoom /\ \E i \in Ids : max(i)
    \/ ExprRoom /\ \E i \in Ids : min(i)
    \/ ExprRoom /\ \E i \in Ids : sum(i)
    \/ ExprRoom /\ \E i \in Ids : mean(i)
    \/ ExprRoom /\ \E i \in Ids : median(i)
    \/ ExprRoom /\ \E i \in Ids, q \in Quantiles : quantile(i, q)
    \/ ExprRoom /\ \E i \in Ids : str_lengths(i)
    \/ ExprRoom /\ \E i \in Ids, pat \in Patterns, val \in Replacements : str_replace(i, pat, val)
    \/ ExprRoom /\ \E i \in Ids, pat \in Patterns, val \in Replacements : str_replace_all(i, pat, val)
    \/ ExprRoom /\ \E i \in Ids, pat \in Patterns : str_contains(i, pat)
    \/ ExprRoom /\ \E i \in Ids, s \in SeriesInputs : call_function(i, s)

SpecExpr == Init /\ [][NextExpr]_vars

\* the caller still has room for an object
BinRoom == Len(heap) < MaxBinObjs

\* the binary constructors: comparisons, infix operators and binary_expr
NextBinary ==
    \/ BinRoom /\ \E name \in ColNames : col(name)
    \/ BinRoom /\ \E i, j \in Ids : eq(i, j)
    \/ BinRoom /\ \E i, j \in Ids : neq(i, j)
    \/ BinRoom /\ \E i, j \in Ids : gt(i, j)
    \/ BinRoom /\ \E i, j \in Ids : gt_eq(i, j)
    \/ BinRoom /\ \E i, j \in Ids : lt_eq(i, j)
    \/ BinRoom /\ \E i, j \in Ids : lt(i, j)
    \/ BinRoom /\ \E l, r \in Ids : __add__(l, r)
    \/ BinRoom /\ \E l, r \in Ids : __sub__(l, r)
    \/ BinRoom /\ \E l, r \in Ids : __mul__(l, r)
    \/ BinRoom /\ \E l, r \in Ids : __truediv__(l, r)
    \/ BinRoom /\ \E l, r \in Ids, op \in OpCodes : call_binary_expr(l, op, r)

SpecBinary == Init /\ [][NextBinary]_vars

\* the caller still has room for an object
CondRoom == Len(heap) < MaxCondObjs

\* the conditional builder, with alias standing for the other builder calls
NextCond ==
    \/ CondRoom /\ \E name \in ColNames : col(name)
    \/ CondRoom /\ \E p \in Ids : when(p)
    \/ CondRoom /\ \E w, e \in Ids : then(w, e)
    \/ CondRoom /\ \E wt, e \in Ids : otherwise(wt, e)
    \/ CondRoom /\ \E i \in Ids, name \in AliasNames : alias(i, name)

SpecCond == Init /\ [][NextCond]_vars

-----------------------------------------------------------------------------
(* Reading the state *)

\* the direct children of an expression node
Children(e) ==
    CASE e.tag \in {"Column", "Literal"} -> {}
      [] e.tag = "BinaryOp" -> {e.left, e.right}
      [] e.tag = "Ternary" -> {e.predicate, e.if_true, e.if_false}
      [] OTHER -> {e.inner}

RECURSIVE Nodes(_)
\* every node of an expression tree, the root included
Nodes(e) == {e} \cup UNION { Nodes(c) : c \in Children(e) }

\* every expression node some object of the heap holds
HeapNodes ==
    UNION { Nodes(heap[i].inner) : i \in { k \in DOMAIN heap : heap[k].cls = "PyExpr" } }

\* this step appended exactly one object to the heap
Built == Len(heap') = Len(heap) + 1 /\ SubSeq(heap', 1, Len(heap)) = heap
NewObj == heap'[Len(heap')]
\* this step left every object of the heap as it was
Kept == \A i \in DOMAIN heap : i \in DOMAIN heap' /\ heap'[i] = heap[i]

-----------------------------------------------------------------------------
(* Claims *)

FiveStrategies == {"backward", "forward", "min", "max", "mean"}

\* what a fill_none step does, by the strategy name it was given
C1_FillNoneStep ==
    call'.op = "fill_none" =>
        IF call'.strs[1] \in FiveStrategies
        THEN /\ result'.tag = "Ok"
             /\ Built
             /\ NewObj.cls = "PyExpr"
             /\ NewObj.inner.tag = "FillNull"
             /\ NewObj.inner.inner = heap[call'.self].inner
        ELSE /\ result'.tag = "Err"
             /\ \E k \in DOMAIN result'.msg : result'.msg[k] = call'.strs[1]
             /\ heap' = heap

\* C1: fill_none(strategy) returns a FillNull expression over its receiver
\* for each of the five strategy names; for every other name it returns an
\* error whose message contains that name, and builds nothing.
C1_FillNone == [][C1_FillNoneStep]_vars

\* fill_none("bogus") has returned its error
C1_Witness ==
    /\ call.op = "fill_none"
    /\ call.strs = <<"bogus">>
    /\ result.tag = "Err"
    /\ result.msg = <<"Strategy ", "bogus", " not supported">>

RecognizedTypes ==
    {"u8", "u16", "u32", "u64", "i8", "i16", "i32", "i64", "f32", "f64",
     "bool", "utf8"}

\* C2: cast with a type name outside the recognised set returns a typed
\* error to the caller (it does not crash) and builds no Cast expression.
C2_CastRejects ==
    (call.op = "cast" /\ call.strs[1] \notin RecognizedTypes) =>
        /\ result.tag = "Err"
        /\ result.id = 0

\* C3: lit accepts exactly int, float, bool and str, each giving a Literal
\* of the matching type; every other input gives a construction error, not
\* a crash, and no input becomes a literal of another type.
C3_LitTyped ==
    call.op = "lit" =>
        LET ty == call.strs[1]
            want == CASE ty = "int" -> "Int64"
                      [] ty = "float" -> "Float64"
                      [] ty = "bool" -> "Boolean"
                      [] ty = "str" -> "Utf8"
                      [] OTHER -> ""
        IN  IF want # ""
            THEN /\ result.tag = "Ok"
                 /\ heap[result.id].inner.tag = "Literal"
                 /\ heap[result.id].inner.ty = want
            ELSE result.tag = "Err"

\* C4: quantile and agg_quantile reject a q outside [0,1] with a
\* construction error, so every Quantile node that exists has q in [0,1].
C4_QuantileValidated ==
    /\ (call.op \in {"quantile", "agg_quantile"} /\ call.nums[1] \notin 0 .. 10)
           => result.tag = "Err"
    /\ \A n \in HeapNodes :
           (n.tag = "Aggregate" /\ n.kind = "Quantile") => n.q \in 0 .. 10

\* where each kind of object comes from in a step that builds one
C5_TwoStageStep ==
    Built =>
        /\ (NewObj.cls = "PyExpr" /\ NewObj.inner.tag = "Ternary")
               => (call'.op = "otherwise" /\ IsWhenThen(call'.self))
        /\ NewObj.cls = "WhenThen" => (call'.op = "then" /\ IsWhen(call'.self))
        /\ NewObj.cls = "When" => call'.op = "when"
        /\ (IsWhen(call'.self) \/ IsWhenThen(call'.self))
               => (NewObj.cls = "PyExpr" <=> call'.op = "otherwise")
        /\ NewObj.cls = "PyExpr" =>
               \A n \in Nodes(NewObj.inner) :
                   n.tag = "Ternary" =>
                       \A b \in {n.predicate, n.if_true, n.if_false} :
                           "tag" \in DOMAIN b /\ "cls" \notin DOMAIN b
        /\ NewObj.cls \in {"When", "WhenThen"} => "inner" \notin DOMAIN NewObj

\* C5: a Ternary is produced only by WhenThen.otherwise, a WhenThen only by
\* When.then, a When only by when; a call on a When or a WhenThen yields an
\* expression only if it is otherwise; and every Ternary inside an expression
\* has its predicate, its then-branch and its else-branch.
C5_TwoStage == [][C5_TwoStageStep]_vars

\* a conditional has been completed and then used as a child of another
\* expression
C5_Witness ==
    \E i, j \in DOMAIN heap :
        /\ heap[i].cls = "PyExpr" /\ heap[i].inner.tag = "Ternary"
        /\ heap[j].cls = "PyExpr" /\ heap[j].inner.tag = "Alias"
        /\ heap[j].inner.inner = heap[i].inner
        /\ \E w \in DOMAIN heap : heap[w].cls = "WhenThen"

InfixOperator(op) ==
    CASE op = "__add__" -> "Plus"
      [] op = "__sub__" -> "Minus"
      [] op = "__mul__" -> "Multiply"
      [] op = "__truediv__" -> "Divide"

\* C6: l + r, l - r, l * r and l / r build exactly the object binary_expr
\* builds from l, r and a code of Plus, Minus, Multiply, Divide.
C6_InfixIsBinary ==
    call.op \in {"__add__", "__sub__", "__mul__", "__truediv__"} =>
        /\ result.tag = "Ok"
        /\ \E c \in 0 .. 255 : Operator_from(c) = InfixOperator(call.op)
        /\ \A c \in 0 .. 255 :
               Operator_from(c) = InfixOperator(call.op) =>
                   binary_expr(heap[call.self], c, heap[call.others[1]])
                       = [panic |-> FALSE, obj |-> heap[result.id]]

\* a subtraction of two different expressions has been built
C6_Witness ==
    /\ call.op = "__sub__"
    /\ result.tag = "Ok"
    /\ heap[call.self] # heap[call.others[1]]

StringTransforms == {"str_lengths", "str_replace", "str_replace_all", "str_contains"}

\* C7: each string transform succeeds at construction with an Apply
\* expression, and its function applied to a column that is not a string
\* column returns a type-mismatch error: no panic, no column.
C7_StringTransforms ==
    /\ call.op \in StringTransforms =>
           /\ result.tag = "Ok"
           /\ heap[result.id].cls = "PyExpr"
           /\ heap[result.id].inner.tag = "Apply"
           /\ heap[result.id].inner.function.kind = call.op
    /\ (call.op = "function" /\ call.strs[2] # "Utf8") =>
           /\ result.tag = "Err"
           /\ result.msg = <<"DataTypeMisMatch">>

\* the function of str_lengths has been applied to an integer column
C7_Witness ==
    /\ call.op = "function"
    /\ call.strs = <<"str_lengths", "Int64">>
    /\ result.tag = "Err"

ComparisonOperator(op) ==
    CASE op = "eq" -> "Eq"
      [] op = "neq" -> "NotEq"
      [] op = "gt" -> "Gt"
      [] op = "gt_eq" -> "GtEq"
      [] op = "lt" -> "Lt"
      [] op = "lt_eq" -> "LtEq"

\* C8: a.eq(b), a.neq(b), a.gt(b), a.gt_eq(b), a.lt(b), a.lt_eq(b) build the
\* BinaryOp with left a, right b and the operator Eq, NotEq, Gt, GtEq, Lt,
\* LtEq respectively.
C8_Comparisons ==
    call.op \in {"eq", "neq", "gt", "gt_eq", "lt", "lt_eq"} =>
        /\ result.tag = "Ok"
        /\ heap[result.id] =
               From(BinaryOp(heap[call.self].inner, ComparisonOperator(call.op),
                             heap[call.others[1]].inner))

\* a.lt_eq(b) has been built for different a and b
C8_Witness ==
    /\ call.op = "lt_eq"
    /\ result.tag = "Ok"
    /\ heap[call.self] # heap[call.others[1]]

\* what when, then and otherwise build, and what a step leaves alone
C9_ConditionalStep ==
    /\ Kept
    /\ call'.op = "when" =>
           /\ Built
           /\ NewObj = [cls |-> "When", predicate |-> heap[call'.others[1]]]
    /\ call'.op = "then" =>
           /\ Built
           /\ NewObj = [cls |-> "WhenThen",
                        predicate |-> heap[call'.self].predicate,
                        then |-> heap[call'.others[1]]]
    /\ call'.op = "otherwise" =>
           /\ Built
           /\ NewObj = From(Ternary(heap[call'.self].predicate.inner,
                                    heap[call'.self].then.inner,
                                    heap[call'.others[1]].inner))

\* C9: when(p) holds p, w.then(a) holds w's predicate and a, and
\* wt.otherwise(b) is Ternary(wt's predicate, wt's then, b) in that order;
\* every call leaves the When, the WhenThen and the expressions it was given
\* as they were, so completions of one builder do not affect each other.
C9_Conditional == [][C9_ConditionalStep]_vars

\* one When completed through two then-branches and one WhenThen through two
\* else-branches, all results standing side by side
C9_Witness ==
    \E w, wt1, wt2, t1, t2 \in DOMAIN heap :
        /\ heap[w].cls = "When"
        /\ heap[wt1].cls = "WhenThen" /\ heap[wt2].cls = "WhenThen"
        /\ heap[wt1].predicate = heap[w].predicate
        /\ heap[wt2].predicate = heap[w].predicate
        /\ heap[wt1].then # heap[wt2].then
        /\ heap[t1].cls = "PyExpr" /\ heap[t2].cls = "PyExpr"
        /\ heap[t1].inner.tag = "Ternary" /\ heap[t2].inner.tag = "Ternary"
        /\ heap[t1].inner.if_true = heap[wt1].then.inner
        /\ heap[t2].inner.if_true = heap[wt1].then.inner
        /\ heap[t1].inner.if_false # heap[t2].inner.if_false
        /\ heap[t1].inner.if_true # heap[t1].inner.if_false

PyExprMethods ==
    {"eq", "neq", "gt", "gt_eq", "lt_eq", "lt", "alias", "is_not", "is_null",
     "is_not_null", "agg_min", "agg_max", "agg_mean", "agg_median", "agg_sum",
     "agg_n_unique", "agg_first", "agg_last", "agg_quantile", "agg_groups",
     "cast", "sort", "shift", "fill_none", "max", "min", "sum", "mean",
     "median", "quantile", "str_lengths", "str_replace", "str_replace_all",
     "str_contains"}

\* what a method of PyExpr does to the objects that exist
C10_ReceiverStep ==
    call'.op \in PyExprMethods =>
        /\ heap'[call'.self] = heap[call'.self]
        /\ \A i \in DOMAIN heap : heap'[i] = heap[i]
        /\ result'.tag = "Ok" => Built
        /\ result'.tag # "Ok" => heap' = heap

\* C10: a method of PyExpr leaves its receiver, and every other object, as
\* it was, whether it returns a new expression or fails.
C10_Receiver == [][C10_ReceiverStep]_vars

\* one expression has become the child of two larger trees and is still the
\* column reference it was built as
C10_Witness ==
    /\ Len(heap) = 3
    /\ heap[1] = From(Column("x"))
    /\ heap[2].inner.tag = "Alias" /\ heap[2].inner.inner = heap[1].inner
    /\ heap[3].inner.tag = "Unary" /\ heap[3].inner.inner = heap[1].inner
    /\ call.op = "is_null" /\ call.self = 1
    /\ result.tag = "Ok"

=============================================================================
